---- MODULE Spec2Model ----
(***************************************************************************)
(* Process management, scheduling and memory-area syscalls of the rCore    *)
(* teaching kernel.  The sources hold two revisions of the task subsystem: *)
(*   - "processor": os/src/task/processor.rs + os/src/syscall/process.rs   *)
(*     (PROCESSOR.current, a ready queue, parent/child task tree);         *)
(*   - "manager":   os/src/task/mod.rs (TASK_MANAGER: a fixed task vector  *)
(*     and the index of the running task).                                 *)
(* The variable `revision` says which of the two a behaviour runs.         *)
(***************************************************************************)
EXTENDS Integers, Sequences, FiniteSets, TLC

\* ---------------------------------------------------------------- bounds

\* Task control blocks ever created in one behaviour (identities 1..MaxTasks).
MaxTasks == 3
\* Width of usize in the model (the real width is 64).
UsizeBits == 16
\* Number of applications loaded by the "manager" revision (get_num_app()).
NumApp == 3
\* Areas one memory set may hold.
MaxAreas == 3

\* ------------------------------------------------------------- constants

PAGE_SIZE_BITS == 12
PAGE_SIZE == 2 ^ PAGE_SIZE_BITS
UsizeModulus == 2 ^ UsizeBits

Ids == 1 .. MaxTasks
NoTask == 0
\* The kernel's root task (INITPROC): the first task control block.
INITPROC == 1
\* Pids the model's tasks can hold: one for each control block.
PidPool == 0 .. (MaxTasks - 1)

\* Exit codes passed to sys_exit (i32).
ExitCodes == {0, 7}
\* pid arguments of sys_waitpid (isize).
WaitPids == {-2, -1} \cup PidPool
\* Values the user register a0 may hold when a syscall without arguments traps.
A0Vals == {0, 5}

VARIABLES
    revision,      \* "processor" | "manager"
    fault,         \* "none", or the panic that halted the kernel
    tasks,         \* processor: id -> task control block
    alive,         \* processor: ids whose control block is allocated
    ready_queue,   \* processor: TASK_MANAGER's ready queue (sequence of ids)
    current,       \* processor: PROCESSOR.current (id or NoTask)
    borrowed,      \* exclusive-access cells held at the last __switch
    tm,            \* manager: [tasks, current_task, started]
    hist,          \* history: id -> [origin, exit_arg, reaped, ran]
    last,          \* history: the last operation, its arguments and its result
    clock,         \* the timer: what get_time_ms() returns
    calls          \* history: task -> syscall id -> runs of count_current_syscall

vars == <<revision, fault, tasks, alive, ready_queue, current, borrowed, tm, hist, last,
         clock, calls>>

\* ------------------------------------------------------------ data model

\* MapPermission bits (mm/memory_set.rs): R = 1<<1, W = 1<<2, X = 1<<3, U = 1<<4.
PermR == 2
PermW == 4
PermX == 8
PermU == 16

\* A MapArea: the page range [start, end) and its permission bits.
MapArea(s, e, p) == [start |-> s, end |-> e, perm |-> p]

\* The memory set of a freshly loaded program: one user-writable area holding
\* pages 0 and 1 (its segments and user stack).
LoadedMemorySet == << MapArea(0, 2, PermU + PermR + PermW + PermX) >>

\* The heap of a loaded program: it starts, empty, at a fixed address above the
\* program's pages (heap_bottom = program_brk).
HeapBottom == 8 * PAGE_SIZE

\* scheduled_time: None.
NoTime == -1

\* The ids the syscall counter is kept for: yield and task_info.
SyscallIds == {124, 410}

\* An empty syscall_counter (a BTreeMap from syscall id to count).
NoCalls == [id \in {} |-> 0]

\* The priority of a new task.
DefaultPriority == 16

\* The accounting and heap fields of a new control block.
NewAccounting ==
    [heap_bottom |-> HeapBottom, program_brk |-> HeapBottom,
     scheduled_time |-> NoTime, syscall_counter |-> NoCalls,
     priority |-> DefaultPriority]

BlankTcb ==
    [pid |-> -1, task_status |-> "UnInit", parent |-> NoTask, children |-> << >>,
     exit_code |-> 0, x10 |-> 0, task_cx |-> "none", memory_set |-> << >>,
     heap_bottom |-> 0, program_brk |-> 0, scheduled_time |-> NoTime,
     syscall_counter |-> NoCalls, priority |-> 0]

\* TaskControlBlock::new: a task loaded from a program image, Ready, whose saved
\* kernel context enters user mode through trap_return.
NewTcb(pid, parent) ==
    [pid |-> pid, task_status |-> "Ready", parent |-> parent, children |-> << >>,
     exit_code |-> 0, x10 |-> 0, task_cx |-> "trap_return",
     memory_set |-> LoadedMemorySet,
     heap_bottom |-> NewAccounting.heap_bottom,
     program_brk |-> NewAccounting.program_brk,
     scheduled_time |-> NewAccounting.scheduled_time,
     syscall_counter |-> NewAccounting.syscall_counter,
     priority |-> NewAccounting.priority]

\* History of a task: how it was created, the code it gave sys_exit, how many
\* successful sys_waitpid calls returned its pid, whether it has been run.
NoExit == -1000
BlankHist == [origin |-> "none", exit_arg |-> NoExit, reaped |-> 0, ran |-> FALSE]

\* The history kept of a task whose control block has been dropped.
ReapedHist(h) == [BlankHist EXCEPT !.origin = h.origin, !.reaped = h.reaped]

\* The tasks of the manager revision.
TmIds == 0 .. (NumApp - 1)

\* No run of count_current_syscall yet, for any id.
NoneCalled == [id \in SyscallIds |-> 0]

\* No write to user memory.
NoWrite == << >>

NoOp == [op |-> "none", task |-> NoTask, arg |-> << >>, ret |-> 0,
         obj |-> NoTask, wrote |-> NoWrite]

\* An operation `name` of task t with arguments arg that returned ret, created or
\* reaped the task obj and wrote <<pointer, value>> to user memory.
Op(name, t, arg, ret, obj, wrote) ==
    [op |-> name, task |-> t, arg |-> arg, ret |-> ret,
     obj |-> obj, wrote |-> wrote]

\* --------------------------------------------------------------- helpers

RECURSIVE SeqCount(_, _)
SeqCount(s, x) ==
    IF s = << >> THEN 0
    ELSE (IF Head(s) = x THEN 1 ELSE 0) + SeqCount(Tail(s), x)

RemoveAt(s, i) == SubSeq(s, 1, i - 1) \o SubSeq(s, i + 1, Len(s))

RECURSIVE SumOver(_, _)
SumOver(S, f) ==
    IF S = {} THEN 0
    ELSE LET x == CHOOSE y \in S : TRUE IN f[x] + SumOver(S \ {x}, f)

\* a + b on usize values: the sum the machine keeps (it wraps), and whether the
\* sum left the word range (a build with overflow checks panics then).
usize_add(a, b) == (a + b) % UsizeModulus
add_overflows(a, b) == a + b >= UsizeModulus

\* `v as usize` for an isize v.
AsUsize(v) == IF v >= 0 THEN v % UsizeModulus ELSE UsizeModulus + v

\* TaskControlBlock::getpid
getpid(t) == tasks[t].pid

\* TaskControlBlockInner::is_zombie
is_zombie(t) == tasks[t].task_status = "Zombie"

\* Pids no allocated control block holds.
FreePids == PidPool \ {tasks[t].pid : t \in alive}

\* pid_alloc: the pid allocator reuses the pids of dropped control blocks; it
\* hands out the smallest pid not in use.
pid_alloc == CHOOSE p \in FreePids : \A q \in FreePids : p <= q

\* Identities not used yet.
FreshIds == {t \in Ids : hist[t].origin = "none"}

\* Arc::strong_count: the holders of task t's control block in the kernel's
\* data structures (child lists, ready queue, PROCESSOR.current).
StrongCount(tcbs, t) ==
    SumOver(alive, [p \in alive |-> SeqCount(tcbs[p].children, t)])
    + SeqCount(ready_queue, t)
    + (IF current = t THEN 1 ELSE 0)

\* User pointers handed to syscalls: one inside the loaded program's pages and
\* one in a page no area maps.
UserPtrs == {PAGE_SIZE + 16, 5 * PAGE_SIZE}

\* VirtAddr::floor: the page an address lies in.
Floor(va) == va \div PAGE_SIZE

\* VirtAddr::ceil: the first page at or after an address.
Ceil(va) == (va + PAGE_SIZE - 1) \div PAGE_SIZE

\* VirtAddr::aligned
Aligned(va) == va % PAGE_SIZE = 0

\* Whether bit b (a power of two) is set in n.
HasBit(n, b) == (n \div b) % 2 = 1

\* translated_refmut: the page-table walk for a user pointer succeeds when the
\* page is mapped user-accessible and writable in the memory set.
Translates(ms, ptr) ==
    \E i \in DOMAIN ms :
        /\ ms[i].start <= Floor(ptr) /\ Floor(ptr) < ms[i].end
        /\ HasBit(ms[i].perm, PermU) /\ HasBit(ms[i].perm, PermW)

\* translated_str: reading a user string needs its page mapped user-readable.
TranslatesStr(ms, ptr) ==
    \E i \in DOMAIN ms :
        /\ ms[i].start <= Floor(ptr) /\ Floor(ptr) < ms[i].end
        /\ HasBit(ms[i].perm, PermU) /\ HasBit(ms[i].perm, PermR)

\* ------------------------------------------------ exclusive-access cells

\* The events of a code path that matter to UPSafeCell: acquiring a cell
\* (exclusive_access), releasing it (drop of the guard) and calling __switch.
Acq(c) == <<"acquire", c>>
Rel(c) == <<"release", c>>
Switch == <<"switch", <<"", 0>> >>
ProcessorCell == <<"PROCESSOR", 0>>
ManagerCell == <<"TASK_MANAGER", 0>>
InnerOf(t) == <<"task", t>>

\* The cells held when the path `events` reaches its __switch, starting with
\* the cells `held`.
RECURSIVE HeldAtSwitch(_, _)
HeldAtSwitch(events, held) ==
    IF events = << >> THEN held
    ELSE LET e == Head(events) IN
         IF e[1] = "switch" THEN held
         ELSE IF e[1] = "acquire" THEN HeldAtSwitch(Tail(events), held \cup {e[2]})
         ELSE HeldAtSwitch(Tail(events), held \ {e[2]})

\* ------------------------------------------------------------------ Init

InitTm ==
    [tasks |-> [i \in 0 .. (NumApp - 1) |->
                   [task_status |-> "Ready", task_cx |-> "trap_return",
                    memory_set |-> LoadedMemorySet,
                    heap_bottom |-> NewAccounting.heap_bottom,
                    program_brk |-> NewAccounting.program_brk,
                    scheduled_time |-> NewAccounting.scheduled_time,
                    syscall_counter |-> NewAccounting.syscall_counter]],
     current_task |-> 0,
     started |-> FALSE]

\* processor: INITPROC has been created and put in the ready queue
\* (add_initproc), and the idle control flow is about to enter run_tasks.
\* manager: TASK_MANAGER has loaded its applications, none has been run.
Init ==
    /\ revision \in {"processor", "manager"}
    /\ fault = "none"
    /\ tasks = [t \in Ids |-> IF t = INITPROC THEN NewTcb(0, NoTask) ELSE BlankTcb]
    /\ alive = {INITPROC}
    /\ ready_queue = << INITPROC >>
    /\ current = NoTask
    /\ borrowed = {}
    /\ tm = InitTm
    /\ hist = [t \in Ids |-> IF t = INITPROC
                              THEN [BlankHist EXCEPT !.origin = "initproc"]
                              ELSE BlankHist]
    /\ last = NoOp
    /\ clock = 0
    /\ calls = [t \in Ids \cup TmIds |-> NoneCalled]

\* --------------------------------------------- processor: the scheduler

Processor == revision = "processor" /\ fault = "none"

\* A task is in user mode or in a syscall: PROCESSOR.current holds it.
Running == Processor /\ current # NoTask

\* A variant of add_task that puts the task at the head of the ready queue.
add_task_front(q, t) == << t >> \o q

\* TaskManager::add (task/manager.rs): append to the ready queue.
add_task(q, t) == Append(q, t)

\* A variant of run_tasks_guards that does not drop the PROCESSOR guard.
run_tasks_guards_held(t) ==
    << Acq(ProcessorCell), Acq(ManagerCell), Rel(ManagerCell),
       Acq(InnerOf(t)), Rel(InnerOf(t)), Switch >>

\* run_tasks: the cells it acquires and releases up to its __switch (fetch_task
\* takes and releases TASK_MANAGER).
run_tasks_guards(t) ==
    << Acq(ProcessorCell), Acq(ManagerCell), Rel(ManagerCell),
       Acq(InnerOf(t)), Rel(InnerOf(t)), Rel(ProcessorCell), Switch >>

\* A variant of run_tasks_some that does not mark the fetched task Running.
run_tasks_some_unmarked(i) ==
    LET t == ready_queue[i] IN
    /\ ready_queue' = RemoveAt(ready_queue, i)
    /\ tasks' = tasks
    /\ current' = t
    /\ borrowed' = HeldAtSwitch(run_tasks_guards(t), borrowed)
    /\ hist' = [hist EXCEPT ![t].ran = TRUE]
    /\ last' = Op("run_tasks", t, << >>, 0, NoTask, NoWrite)
    /\ UNCHANGED <<clock, calls, revision, fault, alive, tm>>

\* run_tasks, one iteration of the idle loop that finds a task: fetch_task
\* removes a task from the ready queue (the policy is left open: any queued
\* task may be the one fetched), the task is marked Running, becomes
\* PROCESSOR.current and is switched to.
run_tasks_some(i) ==
    LET t == ready_queue[i] IN
    /\ ready_queue' = RemoveAt(ready_queue, i)
    /\ tasks' = [tasks EXCEPT ![t].task_status = "Running"]
    /\ current' = t
    /\ borrowed' = HeldAtSwitch(run_tasks_guards(t), borrowed)
    /\ hist' = [hist EXCEPT ![t].ran = TRUE]
    /\ last' = Op("run_tasks", t, << >>, 0, NoTask, NoWrite)
    /\ UNCHANGED <<clock, calls, revision, fault, alive, tm>>

\* run_tasks, an iteration that finds the ready queue empty: a warning, and
\* the loop goes on.
run_tasks_none ==
    /\ last' = Op("run_tasks_none", NoTask, << >>, 0, NoTask, NoWrite)
    /\ UNCHANGED <<clock, calls, revision, fault, tasks, alive, ready_queue, current, borrowed,
                   tm, hist>>

run_tasks ==
    /\ Processor
    /\ current = NoTask
    /\ IF ready_queue # << >>
       THEN \E i \in 1 .. Len(ready_queue) : run_tasks_some(i)
       ELSE run_tasks_none

schedule_guards == << Acq(ProcessorCell), Rel(ProcessorCell), Switch >>

\* schedule: back to the idle control flow, from a caller that acquired and
\* released the cells of `before`.
schedule(before) == HeldAtSwitch(before \o schedule_guards, borrowed)

\* The cells suspend_current_and_run_next acquires and releases before it
\* calls schedule: take_current_task, the task's inner state, add_task.
suspend_guards(t) ==
    << Acq(ProcessorCell), Rel(ProcessorCell), Acq(InnerOf(t)), Rel(InnerOf(t)),
       Acq(ManagerCell), Rel(ManagerCell) >>

\* The cells exit_current_and_run_next acquires and releases before it
\* calls schedule: take_current_task, the task's inner state and, inside it,
\* INITPROC's.
exit_guards(t) ==
    << Acq(ProcessorCell), Rel(ProcessorCell), Acq(InnerOf(t)),
       Acq(InnerOf(INITPROC)), Rel(InnerOf(INITPROC)), Rel(InnerOf(t)) >>

\* suspend_current_and_run_next: take the current task, mark it Ready, put it
\* back in the ready queue and switch to the idle control flow.  The task's
\* context is saved in its control block: it resumes inside this call.
suspend_current_and_run_next ==
    /\ ready_queue' = add_task(ready_queue, current)
    /\ current' = NoTask
    /\ borrowed' = schedule(suspend_guards(current))

\* sys_yield: suspend, and 0 once the task runs again.
sys_yield ==
    /\ Running
    /\ suspend_current_and_run_next
    /\ tasks' = [tasks EXCEPT ![current].task_status = "Ready",
                              ![current].task_cx = "suspend",
                              ![current].x10 = 0]
    /\ last' = Op("sys_yield", current, << >>, 0, NoTask, NoWrite)
    /\ UNCHANGED <<clock, calls, revision, fault, alive, tm, hist>>

\* A timer interrupt ends the running task's quantum: the trap saves the user
\* registers (a0 holds whatever the program left there) and the task is
\* suspended.
timer_interrupt ==
    /\ Running
    /\ suspend_current_and_run_next
    /\ \E a0 \in A0Vals :
         tasks' = [tasks EXCEPT ![current].task_status = "Ready",
                                ![current].task_cx = "suspend",
                                ![current].x10 = a0]
    /\ last' = Op("timer_interrupt", current, << >>, 0, NoTask, NoWrite)
    /\ UNCHANGED <<clock, calls, revision, fault, alive, tm, hist>>

\* A variant of exit_current_and_run_next that drops the children of the
\* exiting task instead of moving them to INITPROC.
exit_current_and_run_next_drop(exit_code) ==
    /\ tasks' = [tasks EXCEPT ![current].task_status = "Zombie",
                              ![current].exit_code = exit_code,
                              ![current].x10 = exit_code,
                              ![current].children = << >>,
                              ![current].memory_set = << >>]
    /\ current' = NoTask
    /\ borrowed' = schedule(exit_guards(current))

\* exit_current_and_run_next(exit_code): take the current task, mark it Zombie,
\* record the exit code, move its children to INITPROC's child list, release
\* its memory areas and switch to the idle control flow.  The context is saved
\* in a local of the call, which nothing refers to afterwards.  (The trap left
\* the syscall's first argument, the exit code, in x[10] of the trap context.)
exit_current_and_run_next(exit_code) ==
    LET t == current
        orphans == tasks[t].children
    IN
    /\ tasks' = [p \in Ids |->
                   IF p = t
                   THEN [tasks[p] EXCEPT !.task_status = "Zombie",
                                         !.exit_code = exit_code,
                                         !.x10 = exit_code,
                                         !.children = << >>,
                                         !.memory_set = << >>]
                   ELSE IF p = INITPROC
                   THEN [tasks[p] EXCEPT !.children = @ \o orphans]
                   ELSE IF SeqCount(orphans, p) > 0
                   THEN [tasks[p] EXCEPT !.parent = INITPROC]
                   ELSE tasks[p]]
    /\ current' = NoTask
    /\ borrowed' = schedule(exit_guards(current))

\* The first of the children a task leaves behind, NoTask when it has none.
FirstOrphan(t) ==
    IF tasks[t].children = << >> THEN NoTask ELSE Head(tasks[t].children)

\* sys_exit.  INITPROC's program never exits.
sys_exit(exit_code) ==
    /\ Running
    /\ current # INITPROC
    /\ exit_current_and_run_next(exit_code)
    /\ hist' = [hist EXCEPT ![current].exit_arg = exit_code]
    /\ last' = Op("sys_exit", current, <<exit_code>>, 0, FirstOrphan(current),
                  NoWrite)
    /\ UNCHANGED <<clock, calls, revision, fault, alive, ready_queue, tm>>

\* The identity the next control block gets.
NextId == CHOOSE t \in FreshIds : \A u \in FreshIds : t <= u

\* A variant of fork_child_x10 that leaves the copied register as it is.
fork_child_x10_copied(copied) == copied

\* What sys_fork leaves in x[10] of the child's trap context, which
\* TaskControlBlock::fork copied from the parent's.
fork_child_x10(copied) == 0

\* sys_fork: TaskControlBlock::fork gives the child a new pid, a copy of the
\* parent's memory set and trap context, and links it under the parent; the
\* child's x[10] is set to 0, the child is added to the ready queue and the
\* parent gets the child's pid.
sys_fork ==
    /\ Running
    /\ FreshIds # {}
    /\ \E a0 \in A0Vals :
        LET p == current
            new_pid == pid_alloc
            c == NextId
            new_task == [NewTcb(new_pid, p) EXCEPT
                            !.memory_set = tasks[p].memory_set,
                            !.heap_bottom = tasks[p].heap_bottom,
                            !.program_brk = tasks[p].program_brk,
                            !.x10 = fork_child_x10(a0)]
        IN
        /\ tasks' = [tasks EXCEPT ![c] = new_task,
                                  ![p].children = Append(@, c),
                                  ![p].x10 = new_pid]
        /\ alive' = alive \cup {c}
        /\ ready_queue' = add_task(ready_queue, c)
        /\ hist' = [hist EXCEPT ![c].origin = "fork"]
        /\ calls' = [calls EXCEPT ![c] = NoneCalled]
        /\ last' = Op("sys_fork", p, << >>, new_pid, c, NoWrite)
    /\ UNCHANGED <<clock, revision, fault, current, borrowed, tm>>

\* sys_spawn(path): -1 when no file has that name; otherwise
\* TaskControlBlock::spawn creates a child running the file's program, with a
\* new pid, linked under the caller; it is added to the ready queue and its pid
\* returned.
sys_spawn(path, found) ==
    /\ Running
    /\ LET p == current IN
       IF ~TranslatesStr(tasks[p].memory_set, path)
       THEN /\ fault' = "translate"
            /\ last' = Op("sys_spawn", p, << >>, 0, NoTask, NoWrite)
            /\ UNCHANGED <<tasks, alive, ready_queue, hist, calls>>
       ELSE IF ~found
       THEN /\ tasks' = [tasks EXCEPT ![p].x10 = -1]
            /\ last' = Op("sys_spawn", p, << >>, -1, NoTask, NoWrite)
            /\ UNCHANGED <<fault, alive, ready_queue, hist, calls>>
       ELSE /\ FreshIds # {}
            /\ LET c == NextId
                   new_pid == pid_alloc
               IN
                /\ tasks' = [tasks EXCEPT ![c] = NewTcb(new_pid, p),
                                          ![p].children = Append(@, c),
                                          ![p].x10 = new_pid]
                /\ alive' = alive \cup {c}
                /\ ready_queue' = add_task(ready_queue, c)
                /\ hist' = [hist EXCEPT ![c].origin = "spawn"]
                /\ calls' = [calls EXCEPT ![c] = NoneCalled]
                /\ last' = Op("sys_spawn", p, << >>, new_pid, c, NoWrite)
            /\ UNCHANGED fault
    /\ UNCHANGED <<clock, revision, current, borrowed, tm>>

\* The closure of sys_waitpid: does child p match the pid argument?
waitpid_matches(pid, p) == pid = -1 \/ AsUsize(pid) = getpid(p)

\* A variant of waitpid_find that searches the child list from its end.
waitpid_find_last(children, pid) ==
    LET hits == {i \in DOMAIN children :
                    is_zombie(children[i]) /\ waitpid_matches(pid, children[i])}
    IN IF hits = {} THEN 0 ELSE CHOOSE i \in hits : \A j \in hits : i >= j

\* The index of the first child that is a zombie and matches pid; 0 when there
\* is none.
waitpid_find(children, pid) ==
    LET hits == {i \in DOMAIN children :
                    is_zombie(children[i]) /\ waitpid_matches(pid, children[i])}
    IN IF hits = {} THEN 0 ELSE CHOOSE i \in hits : \A j \in hits : i <= j

\* A variant of waitpid_remove that leaves the child in the list.
waitpid_remove_none(children, idx) == children

\* inner.children.remove(idx): the child list that is left.
waitpid_remove(children, idx) == RemoveAt(children, idx)

\* A variant of waitpid_found_pid that reads the pid of the list's first child.
waitpid_found_pid_first(children, idx) == getpid(children[1])

\* found_pid: the pid of the child taken out of the list.
waitpid_found_pid(children, idx) == getpid(children[idx])

\* A variant of waitpid_exit_code that reads the caller's own exit code.
waitpid_exit_code_own(child) == tasks[current].exit_code

\* The exit code read from the child taken out of the list.
waitpid_exit_code(child) == tasks[child].exit_code

\* The task that holds pid v, NoTask when there is none.
TaskOfPid(v) ==
    IF \E t \in alive : tasks[t].pid = v
    THEN CHOOSE t \in alive : tasks[t].pid = v
    ELSE NoTask

sys_waitpid(pid, exit_code_ptr) ==
    /\ Running
    /\ LET c == current
           children == tasks[c].children
           idx == waitpid_find(children, pid)
           child == children[idx]
           removed == [tasks EXCEPT ![c].children = waitpid_remove(children, idx)]
           found_pid == waitpid_found_pid(children, idx)
           exit_code == waitpid_exit_code(child)
           named == TaskOfPid(found_pid)
       IN
       IF ~\E i \in DOMAIN children : waitpid_matches(pid, children[i])
       THEN /\ tasks' = [tasks EXCEPT ![c].x10 = -1]
            /\ last' = Op("sys_waitpid", c, <<pid, exit_code_ptr>>, -1, NoTask, NoWrite)
            /\ UNCHANGED <<fault, alive, hist>>
       ELSE IF idx = 0
       THEN /\ tasks' = [tasks EXCEPT ![c].x10 = -2]
            /\ last' = Op("sys_waitpid", c, <<pid, exit_code_ptr>>, -2, NoTask, NoWrite)
            /\ UNCHANGED <<fault, alive, hist>>
       ELSE IF StrongCount(removed, child) + 1 # 1
       THEN \* assert_eq!(Arc::strong_count(&child), 1) fails
            /\ fault' = "assert_strong_count"
            /\ tasks' = removed
            /\ last' = Op("sys_waitpid", c, <<pid, exit_code_ptr>>, 0, child, NoWrite)
            /\ UNCHANGED <<alive, hist>>
       ELSE IF ~Translates(tasks[c].memory_set, exit_code_ptr)
       THEN /\ fault' = "translate"
            /\ tasks' = removed
            /\ last' = Op("sys_waitpid", c, <<pid, exit_code_ptr>>, 0, child, NoWrite)
            /\ UNCHANGED <<alive, hist>>
       ELSE \* the child's control block is dropped when the call returns
            /\ tasks' = [removed EXCEPT ![c].x10 = found_pid, ![child] = BlankTcb]
            /\ alive' = alive \ {child}
            /\ hist' = [t \in Ids |->
                          LET h == IF t = child THEN ReapedHist(hist[t]) ELSE hist[t]
                          IN IF t = named
                             THEN [h EXCEPT !.reaped = IF @ < 2 THEN @ + 1 ELSE @]
                             ELSE h]
            /\ last' = Op("sys_waitpid", c, <<pid, exit_code_ptr>>, found_pid, child,
                          <<exit_code_ptr, exit_code>>)
            /\ UNCHANGED fault
    /\ UNCHANGED <<clock, calls, revision, ready_queue, current, borrowed, tm>>

\* ------------------------------------------------- manager: the scheduler

Manager == revision = "manager" /\ fault = "none"

\* A task of the manager revision is in user mode or in a syscall.
TmRunning == Manager /\ tm.started

run_first_task_guards == << Acq(ManagerCell), Rel(ManagerCell), Switch >>

\* TaskManager::run_first_task: task 0 is marked Running and switched to.
run_first_task ==
    /\ Manager
    /\ ~tm.started
    /\ tm' = [tm EXCEPT !.tasks[0].task_status = "Running", !.started = TRUE]
    /\ borrowed' = HeldAtSwitch(run_first_task_guards, borrowed)
    /\ last' = Op("run_first_task", 0, << >>, 0, NoTask, NoWrite)
    /\ UNCHANGED <<clock, calls, revision, fault, tasks, alive, ready_queue, current, hist>>

\* A variant of mark_current_suspended that leaves the status as it is.
mark_current_suspended_skip(m) == m

\* TaskManager::mark_current_suspended
mark_current_suspended(m) ==
    [m EXCEPT !.tasks[m.current_task].task_status = "Ready"]

\* A variant of mark_current_exited that marks the task Ready.
mark_current_exited_ready(m) ==
    [m EXCEPT !.tasks[m.current_task].task_status = "Ready"]

\* TaskManager::mark_current_exited
mark_current_exited(m) ==
    [m EXCEPT !.tasks[m.current_task].task_status = "Exited"]

\* A variant of find_next_task that does not look at the current task itself.
find_next_task_others(m) ==
    LET id(k) == (m.current_task + k) % NumApp
        hits == {k \in 1 .. (NumApp - 1) : m.tasks[id(k)].task_status = "Ready"}
    IN IF hits = {} THEN -1
       ELSE id(CHOOSE k \in hits : \A j \in hits : k <= j)

\* TaskManager::find_next_task: the first Ready task in the order
\* current + 1, ..., current + num_app (modulo num_app); -1 for None.
find_next_task(m) ==
    LET id(k) == (m.current_task + k) % NumApp
        hits == {k \in 1 .. NumApp : m.tasks[id(k)].task_status = "Ready"}
    IN IF hits = {} THEN -1
       ELSE id(CHOOSE k \in hits : \A j \in hits : k <= j)

\* The cells acquired and released up to the __switch of run_next_task, after
\* mark_current_suspended or mark_current_exited: find_next_task, then
\* run_next_task's own access.
run_next_task_guards ==
    << Acq(ManagerCell), Rel(ManagerCell),
       Acq(ManagerCell), Rel(ManagerCell),
       Acq(ManagerCell), Rel(ManagerCell), Switch >>

\* A variant of run_next_task that returns when it finds no Ready task.
run_next_task_returns(m, site) ==
    LET next == find_next_task(m)
        cur == m.current_task
        saved == [m EXCEPT !.tasks[cur].task_cx = site]
    IN IF next = -1
       THEN [tm |-> m, fault |-> "none"]
       ELSE [tm |-> [saved EXCEPT !.tasks[next].task_status = "Running",
                                  !.tasks[next].scheduled_time =
                                      IF @ = NoTime THEN clock ELSE @,
                                  !.current_task = next],
             fault |-> "none"]

\* TaskManager::run_next_task, called from `site` ("suspend" or "exit"): the
\* next task is marked Running and becomes the current one; __switch saves the
\* calling flow in the old task's task_cx and resumes the flow saved in the
\* next task's.  A flow saved inside the exit call returns from
\* exit_current_and_run_next when it is resumed.  Without a Ready task the
\* kernel panics.
run_next_task(m, site) ==
    LET next == find_next_task(m)
        cur == m.current_task
        saved == [m EXCEPT !.tasks[cur].task_cx = site]
    IN IF next = -1
       THEN [tm |-> m, fault |-> "All applications completed!"]
       ELSE [tm |-> [saved EXCEPT !.tasks[next].task_status = "Running",
                                  !.tasks[next].scheduled_time =
                                      IF @ = NoTime THEN clock ELSE @,
                                  !.current_task = next],
             fault |-> IF saved.tasks[next].task_cx = "exit"
                       THEN "Unreachable in sys_exit!"
                       ELSE "none"]

\* suspend_current_and_run_next of the manager revision (sys_yield, or the
\* timer interrupt).
tm_suspend_current_and_run_next ==
    /\ TmRunning
    /\ LET r == run_next_task(mark_current_suspended(tm), "suspend") IN
       /\ tm' = r.tm
       /\ fault' = r.fault
    /\ borrowed' = HeldAtSwitch(run_next_task_guards, borrowed)
    /\ last' = Op("tm_suspend", tm.current_task, << >>, 0, NoTask, NoWrite)
    /\ UNCHANGED <<clock, calls, revision, tasks, alive, ready_queue, current, hist>>

\* exit_current_and_run_next of the manager revision.
tm_exit_current_and_run_next ==
    /\ TmRunning
    /\ LET r == run_next_task(mark_current_exited(tm), "exit") IN
       /\ tm' = r.tm
       /\ fault' = r.fault
       /\ borrowed' = IF r.fault = "All applications completed!"
                      THEN borrowed
                      ELSE HeldAtSwitch(run_next_task_guards, borrowed)
    /\ last' = Op("tm_exit", tm.current_task, << >>, 0, NoTask, NoWrite)
    /\ UNCHANGED <<clock, calls, revision, tasks, alive, ready_queue, current, hist>>

\* ------------------------------------------------------- memory areas

\* Arguments of sys_mmap and sys_munmap.
MmapStarts == {PAGE_SIZE, 2 * PAGE_SIZE, 2 * PAGE_SIZE + 8, 3 * PAGE_SIZE}
MmapLens == {0, 1, PAGE_SIZE + 1}
MmapPorts == {0, 3, 6, 8, 11}

\* The pages [s, e) of an area or a request.
Pages(s, e) == s .. (e - 1)

\* MemorySet::is_overlapped: does the page range [s, e) intersect an area?
is_overlapped(ms, s, e) ==
    \E i \in DOMAIN ms : Pages(s, e) \cap Pages(ms[i].start, ms[i].end) # {}

\* MemorySet::insert_framed_area: a new area, one frame for each of its pages.
push_framed_area(ms, start_va, end_va, permission) ==
    Append(ms, MapArea(Floor(start_va), Ceil(end_va), permission))

\* MemorySet::unmap: the first area whose page range is [s, e) is unmapped and
\* deleted, 0; -1 when no area has that range.
memory_set_unmap(ms, s, e) ==
    LET hits == {i \in DOMAIN ms : ms[i].start = s /\ ms[i].end = e} IN
    IF hits = {} THEN [ret |-> -1, memory_set |-> ms]
    ELSE [ret |-> 0,
          memory_set |-> RemoveAt(ms, CHOOSE i \in hits : \A j \in hits : i <= j)]

\* A variant of insert_framed_area that inserts without asking is_overlapped.
insert_framed_area_unchecked(ms, start_va, end_va, permission) ==
    [ret |-> 0, memory_set |-> push_framed_area(ms, start_va, end_va, permission)]

\* insert_framed_area (processor revision), on the current task's memory set.
insert_framed_area(ms, start_va, end_va, permission) ==
    IF is_overlapped(ms, Floor(start_va), Ceil(end_va))
    THEN [ret |-> -1, memory_set |-> ms]
    ELSE [ret |-> 0, memory_set |-> push_framed_area(ms, start_va, end_va, permission)]

\* TaskManager::insert_current_framed_area (manager revision).
insert_current_framed_area(ms, start_va, end_va, permission) ==
    IF is_overlapped(ms, Floor(start_va), Ceil(end_va))
    THEN [ret |-> -1, memory_set |-> ms]
    ELSE [ret |-> 0, memory_set |-> push_framed_area(ms, start_va, end_va, permission)]

\* A variant of unmap_framed_area that rounds the end down.
unmap_framed_area_floor(ms, start_va, end_va) ==
    memory_set_unmap(ms, Floor(start_va), Floor(end_va))

\* unmap_framed_area (processor revision).
unmap_framed_area(ms, start_va, end_va) ==
    memory_set_unmap(ms, Floor(start_va), Ceil(end_va))

\* TaskManager::unmap_current_framed_area (manager revision).
unmap_current_framed_area(ms, start_va, end_va) ==
    memory_set_unmap(ms, Floor(start_va), Ceil(end_va))

\* A variant of mmap_port_ok that looks at the low three bits only.
mmap_port_ok_low(port) == port % 8 # 0

\* sys_mmap's test of port: (port & 0x7) != 0 and (port & !0x7) == 0.
mmap_port_ok(port) == port % 8 # 0 /\ port \div 8 = 0

\* MapPermission::from_bits_truncate(v as u8): the known flags of v's low byte.
from_bits_truncate(v) ==
    LET b == v % 256 IN
    (IF HasBit(b, PermR) THEN PermR ELSE 0) + (IF HasBit(b, PermW) THEN PermW ELSE 0)
    + (IF HasBit(b, PermX) THEN PermX ELSE 0) + (IF HasBit(b, PermU) THEN PermU ELSE 0)

\* MapPermission::U | from_bits_truncate((port << 1) as u8)
mmap_permission(port) ==
    LET f == from_bits_truncate(port * 2) IN
    IF HasBit(f, PermU) THEN f ELSE f + PermU

\* The task a syscall is made by, and its memory set, in either revision.
Caller == IF revision = "processor" THEN current ELSE tm.current_task
CallerMemorySet ==
    IF revision = "processor" THEN tasks[current].memory_set
    ELSE tm.tasks[tm.current_task].memory_set

\* A syscall that returns: the caller's memory set becomes ms, x[10] of its
\* trap context the return value (processor revision).
SyscallReturns(ms, ret) ==
    IF revision = "processor"
    THEN /\ tasks' = [tasks EXCEPT ![current].memory_set = ms, ![current].x10 = ret]
         /\ UNCHANGED tm
    ELSE /\ tm' = [tm EXCEPT !.tasks[tm.current_task].memory_set = ms]
         /\ UNCHANGED tasks

\* What sys_mmap(start, len, port) returns and makes of the caller's memory
\* set ms.
sys_mmap_result(ms, start, len, port) ==
    LET start_va == start IN
    IF ~Aligned(start_va) \/ ~mmap_port_ok(port)
    THEN [ret |-> -1, memory_set |-> ms]
    ELSE IF revision = "processor"
    THEN insert_framed_area(ms, start_va, usize_add(start, len),
                            mmap_permission(port))
    ELSE insert_current_framed_area(ms, start_va, usize_add(start, len),
                                    mmap_permission(port))

\* A variant of sys_munmap_result that does not look at the alignment of start.
sys_munmap_result_unaligned(ms, start, len) ==
    IF revision = "processor"
    THEN unmap_framed_area(ms, start, start + len)
    ELSE unmap_current_framed_area(ms, start, start + len)

\* What sys_munmap(start, len) returns and makes of the caller's memory set ms.
sys_munmap_result(ms, start, len) ==
    LET start_va == start IN
    IF ~Aligned(start_va)
    THEN [ret |-> -1, memory_set |-> ms]
    ELSE IF revision = "processor"
    THEN unmap_framed_area(ms, start_va, usize_add(start, len))
    ELSE unmap_current_framed_area(ms, start_va, usize_add(start, len))

\* Does sys_mmap(start, len, port) get to add start and len, and does the sum
\* leave the word range?
sys_mmap_overflows(start, len, port) ==
    Aligned(start) /\ mmap_port_ok(port) /\ add_overflows(start, len)

\* The same for sys_munmap(start, len).
sys_munmap_overflows(start, len) == Aligned(start) /\ add_overflows(start, len)

\* The panic of `start + len` in a kernel built with overflow checks.
AddPanics(name, arg) ==
    /\ fault' = "attempt to add with overflow"
    /\ last' = Op(name, Caller, arg, 0, NoTask, NoWrite)
    /\ UNCHANGED <<tasks, tm>>

\* sys_mmap(start, len, port).  When start + len leaves the word range the
\* kernel panics if it was built with overflow checks, and goes on with the
\* wrapped sum if it was built without.
sys_mmap(start, len, port) ==
    /\ Running \/ TmRunning
    /\ \/ /\ sys_mmap_overflows(start, len, port)
          /\ AddPanics("sys_mmap", <<start, len, port>>)
       \/ LET r == sys_mmap_result(CallerMemorySet, start, len, port)
          IN
          /\ Len(r.memory_set) <= MaxAreas
          /\ SyscallReturns(r.memory_set, r.ret)
          /\ last' = Op("sys_mmap", Caller, <<start, len, port>>, r.ret, NoTask,
                        NoWrite)
          /\ UNCHANGED fault
    /\ UNCHANGED <<clock, calls, revision, alive, ready_queue, current, borrowed, hist>>

\* sys_munmap(start, len)
sys_munmap(start, len) ==
    /\ Running \/ TmRunning
    /\ \/ /\ sys_munmap_overflows(start, len)
          /\ AddPanics("sys_munmap", <<start, len>>)
       \/ LET r == sys_munmap_result(CallerMemorySet, start, len)
          IN
          /\ SyscallReturns(r.memory_set, r.ret)
          /\ last' = Op("sys_munmap", Caller, <<start, len>>, r.ret, NoTask, NoWrite)
          /\ UNCHANGED fault
    /\ UNCHANGED <<clock, calls, revision, alive, ready_queue, current, borrowed, hist>>

\* ------------------------------------------------------------- the heap

\* The most pages the heap is grown to.
MaxHeapPages == 2

HalfPage == PAGE_SIZE \div 2

\* size arguments of sys_sbrk (i32).
SbrkSizes == {-(PAGE_SIZE + HalfPage), -HalfPage, 0, HalfPage, PAGE_SIZE}

\* The control block of the task a syscall is made by, in either revision.
CallerTcb == IF revision = "processor" THEN tasks[current] ELSE tm.tasks[tm.current_task]

\* TaskControlBlock::change_program_brk(size): None when the new break would
\* lie below heap_bottom; otherwise the heap area is shrunk or grown to the new
\* break, which is recorded, and the old break is returned.
change_program_brk(tcb, size) ==
    LET old_break == tcb.program_brk
        new_brk == tcb.program_brk + size
    IN IF new_brk < tcb.heap_bottom
       THEN [some |-> FALSE, old_brk |-> 0, program_brk |-> tcb.program_brk]
       ELSE [some |-> TRUE, old_brk |-> old_break, program_brk |-> new_brk]

\* TaskManager::change_current_program_brk
change_current_program_brk(m, size) ==
    change_program_brk(m.tasks[m.current_task], size)

\* A variant of sys_sbrk_ret that returns the new break.
sys_sbrk_ret_new(opt) == IF opt.some THEN opt.program_brk ELSE -1

\* sys_sbrk's return value: Some(old_brk) => old_brk as isize, None => -1.
sys_sbrk_ret(opt) == IF opt.some THEN opt.old_brk ELSE -1

\* sys_sbrk(size)
sys_sbrk(size) ==
    /\ Running \/ TmRunning
    /\ LET opt == IF revision = "processor"
                  THEN change_program_brk(tasks[current], size)
                  ELSE change_current_program_brk(tm, size)
           ret == sys_sbrk_ret(opt)
       IN
       /\ opt.program_brk <= CallerTcb.heap_bottom + MaxHeapPages * PAGE_SIZE
       /\ IF revision = "processor"
          THEN /\ tasks' = [tasks EXCEPT ![current].program_brk = opt.program_brk,
                                         ![current].x10 = ret]
               /\ UNCHANGED tm
          ELSE /\ tm' = [tm EXCEPT !.tasks[tm.current_task].program_brk =
                                       opt.program_brk]
               /\ UNCHANGED tasks
       /\ last' = Op("sys_sbrk", Caller, << size >>, ret, NoTask, NoWrite)
    /\ UNCHANGED <<clock, calls, revision, fault, alive, ready_queue, current, borrowed, hist>>

\* ------------------------------------------------- time and accounting

\* The latest time the timer is let run to.
MaxClock == 2

\* The most calls of one id that are counted.
MaxCalls == 2

\* timer::get_time_ms and timer::get_time_us
get_time_ms == clock
get_time_us == 1000 * clock

\* Time passes.
tick ==
    /\ fault = "none"
    /\ clock < MaxClock
    /\ clock' = clock + 1
    /\ UNCHANGED <<revision, fault, tasks, alive, ready_queue, current, borrowed,
                   tm, hist, last, calls>>

\* A variant of counted that inserts a new entry with 0.
counted_from_zero(syscall_counter, syscall_id) ==
    IF syscall_id \in DOMAIN syscall_counter
    THEN [syscall_counter EXCEPT ![syscall_id] = @ + 1]
    ELSE [k \in DOMAIN syscall_counter \cup {syscall_id} |->
             IF k = syscall_id THEN 0 ELSE syscall_counter[k]]

\* The syscall_counter after count_current_syscall(syscall_id): the id's entry
\* is incremented, or inserted with 1.
counted(syscall_counter, syscall_id) ==
    IF syscall_id \in DOMAIN syscall_counter
    THEN [syscall_counter EXCEPT ![syscall_id] = @ + 1]
    ELSE [k \in DOMAIN syscall_counter \cup {syscall_id} |->
             IF k = syscall_id THEN 1 ELSE syscall_counter[k]]

\* count_current_syscall (processor revision) and
\* TaskManager::count_current_syscall (manager revision).
count_current_syscall(syscall_id) ==
    /\ Running \/ TmRunning
    /\ syscall_id \in DOMAIN CallerTcb.syscall_counter
          => CallerTcb.syscall_counter[syscall_id] < MaxCalls
    /\ IF revision = "processor"
       THEN /\ tasks' = [tasks EXCEPT ![current].syscall_counter =
                                          counted(@, syscall_id)]
            /\ UNCHANGED tm
       ELSE /\ tm' = [tm EXCEPT !.tasks[tm.current_task].syscall_counter =
                                    counted(@, syscall_id)]
            /\ UNCHANGED tasks
    /\ calls' = [calls EXCEPT ![Caller][syscall_id] = @ + 1]
    /\ last' = Op("count_current_syscall", Caller, << syscall_id >>, 0, NoTask, NoWrite)
    /\ UNCHANGED <<clock, revision, fault, alive, ready_queue, current, borrowed, hist>>

\* current_syscall_counter / TaskManager::get_current_syscall_counter: the
\* array with the count of every id that has an entry, 0 elsewhere (shown for
\* the ids of SyscallIds).
current_syscall_counter(tcb) ==
    [id \in SyscallIds |->
        IF id \in DOMAIN tcb.syscall_counter THEN tcb.syscall_counter[id] ELSE 0]

\* current_scheduled_time / TaskManager::get_current_scheduled_time
current_scheduled_time(tcb) == tcb.scheduled_time

\* A syscall that writes `value` through the user pointer ptr and returns 0;
\* the kernel panics when the pointer does not translate.
WritesBack(name, ptr, value) ==
    IF ~Translates(CallerMemorySet, ptr)
    THEN /\ fault' = "translate"
         /\ last' = Op(name, Caller, << ptr >>, 0, NoTask, NoWrite)
         /\ UNCHANGED <<tasks, tm>>
    ELSE /\ SyscallReturns(CallerMemorySet, 0)
         /\ last' = Op(name, Caller, << ptr >>, 0, NoTask, << ptr, value >>)
         /\ UNCHANGED fault

\* sys_get_time(ts, _tz)
sys_get_time(ts) ==
    /\ Running \/ TmRunning
    /\ LET us == get_time_us IN
       WritesBack("sys_get_time", ts,
                  [sec |-> us \div 1000000, usec |-> us % 1000000])
    /\ UNCHANGED <<clock, calls, revision, alive, ready_queue, current, borrowed, hist>>

\* sys_task_info(ti): the TaskInfo is built first (the unwrap of the
\* scheduled time panics on None), then the pointer is translated.
sys_task_info(ti) ==
    /\ Running \/ TmRunning
    /\ LET ms == get_time_ms IN
       IF current_scheduled_time(CallerTcb) = NoTime
       THEN /\ fault' = "unwrap on None"
            /\ last' = Op("sys_task_info", Caller, << ti >>, 0, NoTask, NoWrite)
            /\ UNCHANGED <<tasks, tm>>
       ELSE WritesBack("sys_task_info", ti,
                       [status |-> "Running",
                        syscall_times |-> current_syscall_counter(CallerTcb),
                        time |-> ms - current_scheduled_time(CallerTcb)])
    /\ UNCHANGED <<clock, calls, revision, alive, ready_queue, current, borrowed, hist>>

\* sys_exec(path): -1 when no file has that name; otherwise
\* TaskControlBlock::exec replaces the task's memory set and trap context by
\* those of the file's program, and 0.
sys_exec(path, found) ==
    /\ Running
    /\ LET p == current IN
       IF ~TranslatesStr(tasks[p].memory_set, path)
       THEN /\ fault' = "translate"
            /\ last' = Op("sys_exec", p, << path >>, 0, NoTask, NoWrite)
            /\ UNCHANGED tasks
       ELSE /\ tasks' = IF found
                        THEN [tasks EXCEPT ![p].memory_set = LoadedMemorySet,
                                           ![p].heap_bottom = NewAccounting.heap_bottom,
                                           ![p].program_brk = NewAccounting.program_brk,
                                           ![p].x10 = 0]
                        ELSE [tasks EXCEPT ![p].x10 = -1]
            /\ last' = Op("sys_exec", p, << path >>, IF found THEN 0 ELSE -1,
                          NoTask, NoWrite)
            /\ UNCHANGED fault
    /\ UNCHANGED <<clock, calls, revision, alive, ready_queue, current, borrowed, tm, hist>>

\* Priorities asked for (isize): the least isize, -1, 0, 1, the least priority
\* accepted and one above it.
Prios == {-(UsizeModulus \div 2), -1, 0, 1, 2, 3}

\* TaskControlBlock::set_priority
set_priority(tcb, new_priority) == [tcb EXCEPT !.priority = new_priority]

\* set_current_priority: the current task's priority is set.
set_current_priority(new_priority) ==
    [tasks EXCEPT ![current] = set_priority(@, new_priority)]

\* A variant of sys_set_priority_accepts that takes 1 as well.
sys_set_priority_accepts_one(prio) == prio >= 1

\* The test sys_set_priority makes of its argument.
sys_set_priority_accepts(prio) == prio >= 2

\* sys_set_priority(prio)
sys_set_priority(prio) ==
    /\ Running
    /\ IF sys_set_priority_accepts(prio)
       THEN /\ tasks' = [set_current_priority(AsUsize(prio)) EXCEPT
                            ![current].x10 = prio]
            /\ last' = Op("sys_set_priority", current, << prio >>, prio, NoTask,
                          NoWrite)
       ELSE /\ tasks' = [tasks EXCEPT ![current].x10 = -1]
            /\ last' = Op("sys_set_priority", current, << prio >>, -1, NoTask,
                          NoWrite)
    /\ UNCHANGED <<clock, calls, revision, fault, alive, ready_queue, current,
                   borrowed, tm, hist>>

\* ------------------------------------------------------------------ Next

Next ==
    \/ run_tasks
    \/ sys_yield
    \/ timer_interrupt
    \/ \E c \in ExitCodes : sys_exit(c)
    \/ sys_fork
    \/ \E path \in UserPtrs, found \in BOOLEAN : sys_spawn(path, found)
    \/ \E pid \in WaitPids, ptr \in UserPtrs : sys_waitpid(pid, ptr)
    \/ run_first_task
    \/ tm_suspend_current_and_run_next
    \/ tm_exit_current_and_run_next

Spec == Init /\ [][Next]_vars

\* The memory-area syscalls, made by the tasks of a small system: whichever
\* task runs maps and unmaps areas, and the tasks take turns.
NextMem ==
    \/ run_tasks
    \/ run_first_task
    \/ \E start \in MmapStarts, len \in MmapLens, port \in MmapPorts :
          sys_mmap(start, len, port)
    \/ \E start \in MmapStarts, len \in MmapLens : sys_munmap(start, len)

SpecMem == Init /\ [][NextMem]_vars

\* sys_mmap and sys_munmap with arguments from the whole word range: the
\* first and the last page, lengths 0, 1, a page and the largest word.
WordStarts == {0, PAGE_SIZE, UsizeModulus - PAGE_SIZE, UsizeModulus - 1}
WordLens == {0, 1, PAGE_SIZE, UsizeModulus - 1}
WordPorts == {0, 3, UsizeModulus - 1}

NextWord ==
    \/ run_tasks
    \/ run_first_task
    \/ \E start \in WordStarts, len \in WordLens, port \in WordPorts :
          sys_mmap(start, len, port)
    \/ \E start \in WordStarts, len \in WordLens : sys_munmap(start, len)

SpecWord == Init /\ [][NextWord]_vars

\* sys_sbrk, made by the tasks of a small system that take turns.
NextBrk ==
    \/ run_tasks
    \/ run_first_task
    \/ sys_yield
    \/ tm_suspend_current_and_run_next
    \/ \E size \in SbrkSizes : sys_sbrk(size)

SpecBrk == Init /\ [][NextBrk]_vars

\* sys_task_info while time passes and the tasks take turns.
NextInfo ==
    \/ run_tasks
    \/ run_first_task
    \/ sys_yield
    \/ tm_suspend_current_and_run_next
    \/ tick
    \/ \E ti \in UserPtrs : sys_task_info(ti)

SpecInfo == Init /\ [][NextInfo]_vars

\* Priorities set by tasks that fork and take turns.
NextPrio ==
    \/ run_tasks
    \/ sys_yield
    \/ sys_fork
    \/ \E prio \in Prios : sys_set_priority(prio)

SpecPrio == Init /\ [][NextPrio]_vars

\* run_tasks with fetch_task's strict round-robin policy: the task fetched is
\* the one at the head of the ready queue.
run_tasks_round_robin ==
    /\ Processor
    /\ current = NoTask
    /\ IF ready_queue # << >> THEN run_tasks_some(1) ELSE run_tasks_none

\* Tasks that are created, take turns and exit, under round-robin.
NextLive ==
    \/ run_tasks_round_robin
    \/ sys_yield
    \/ sys_fork
    \/ \E c \in ExitCodes : sys_exit(c)
    \/ run_first_task
    \/ tm_suspend_current_and_run_next
    \/ tm_exit_current_and_run_next

\* The idle loop and the first dispatch go on, and a task that is running
\* yields or exits in the end.
FairLive ==
    /\ WF_vars(run_tasks_round_robin)
    /\ WF_vars(run_first_task)
    /\ WF_vars(sys_yield \/ \E c \in ExitCodes : sys_exit(c))
    /\ WF_vars(tm_suspend_current_and_run_next \/ tm_exit_current_and_run_next)

SpecLive == Init /\ [][NextLive]_vars /\ FairLive

\* The syscall counter: counting and reporting while the tasks take turns.
NextCount ==
    \/ run_tasks
    \/ run_first_task
    \/ sys_yield
    \/ tm_suspend_current_and_run_next
    \/ \E syscall_id \in SyscallIds : count_current_syscall(syscall_id)
    \/ \E ti \in UserPtrs : sys_task_info(ti)

SpecCount == Init /\ [][NextCount]_vars

\* The syscalls that are handed a user pointer, made by the tasks of a small
\* system in which children are spawned, exit and are waited for.
NextPtr ==
    \/ run_tasks
    \/ run_first_task
    \/ sys_yield
    \/ tm_suspend_current_and_run_next
    \/ \E c \in ExitCodes : sys_exit(c)
    \/ \E path \in UserPtrs, found \in BOOLEAN : sys_spawn(path, found)
    \/ \E path \in UserPtrs, found \in BOOLEAN : sys_exec(path, found)
    \/ \E pid \in WaitPids, ptr \in UserPtrs : sys_waitpid(pid, ptr)
    \/ \E ts \in UserPtrs : sys_get_time(ts)
    \/ \E ti \in UserPtrs : sys_task_info(ti)

SpecPtr == Init /\ [][NextPtr]_vars

\* ---------------------------------------------------------------- claims

\* Does the step made a sys_waitpid call that returned?
WaitpidReturned == last'.op = "sys_waitpid" /\ fault' = "none"

\* The positions in the caller's child list (before the call) whose child has
\* the pid asked for; -1 asks for any child.
WaitMatching(pid) ==
    {i \in DOMAIN tasks[current].children :
        pid = -1 \/ tasks[tasks[current].children[i]].pid = pid}

WaitZombies(pid) ==
    {i \in WaitMatching(pid) :
        tasks[tasks[current].children[i]].task_status = "Zombie"}

\* C1: a sys_waitpid call that returns gives -1 when the caller has no child
\* matching pid, -2 when a child matches but no matching child is a Zombie,
\* and otherwise the pid of the first matching Zombie in child-list order,
\* having stored that child's exit code at exit_code_ptr.
C1_WaitpidResult ==
    [][WaitpidReturned =>
        LET pid == last'.arg[1]
            kids == tasks[current].children
            M == WaitMatching(pid)
            Z == WaitZombies(pid)
        IN
        /\ M = {} => last'.ret = -1 /\ last'.wrote = NoWrite
        /\ (M # {} /\ Z = {}) => last'.ret = -2 /\ last'.wrote = NoWrite
        /\ Z # {} =>
             \E i \in Z :
                /\ \A j \in Z : i <= j
                /\ last'.ret = tasks[kids[i]].pid
                /\ last'.wrote = <<last'.arg[2], tasks[kids[i]].exit_code>>
                /\ last'.obj = kids[i]
    ]_vars

\* A waitpid(-1) returned the pid of a Zombie child while a later child of the
\* caller was a Zombie too.
C1_Witness ==
    /\ last.op = "sys_waitpid" /\ last.arg[1] = -1 /\ last.ret >= 0
    /\ fault = "none"
    /\ \E i \in DOMAIN tasks[last.task].children :
          tasks[tasks[last.task].children[i]].task_status = "Zombie"

\* The number of places task t has in the child lists of all tasks.
ChildListPlaces(t) ==
    Cardinality({pi \in alive \X (1 .. MaxTasks) :
                    /\ pi[2] \in DOMAIN tasks[pi[1]].children
                    /\ tasks[pi[1]].children[pi[2]] = t})

\* C2: the pid of each child is returned by a successful sys_waitpid at most
\* once: the task whose pid was returned is gone from every child list and
\* its control block is dropped, and the same call made again right away
\* returns -1, -2 or another pid.
C2_ReapedOnce ==
    /\ [](\A t \in Ids :
            /\ hist[t].reaped <= 1
            /\ hist[t].reaped = 1 => t \notin alive /\ ChildListPlaces(t) = 0)
    /\ [][(/\ last.op = "sys_waitpid" /\ last.ret >= 0
           /\ last'.op = "sys_waitpid" /\ last'.task = last.task
           /\ last'.arg = last.arg)
          => /\ fault' = "none"
             /\ last'.ret \in {-1, -2} \/ last'.ret # last.ret]_vars

\* Two children have been reaped, and the last sys_waitpid found no child left.
C2_Witness ==
    /\ \E t, u \in Ids : t # u /\ hist[t].reaped = 1 /\ hist[u].reaped = 1
    /\ last.op = "sys_waitpid" /\ last.ret = -1 /\ last.arg[1] = -1

\* C3: when a task waits for the pid of a child it spawned, with a pointer it
\* may write to, the call returns -2 as long as the child has not exited, and
\* once the child has called exit(c) it returns the child's pid and stores c.
C3_SpawnWaitExit ==
    [][(last'.op = "sys_waitpid" /\ last' # last) =>
        \A i \in DOMAIN tasks[current].children :
            LET k == tasks[current].children[i] IN
            (/\ hist[k].origin = "spawn"
             /\ last'.arg[1] = tasks[k].pid
             /\ Translates(tasks[current].memory_set, last'.arg[2]))
            => /\ fault' = "none"
               /\ IF hist[k].exit_arg = NoExit
                  THEN last'.ret = -2 /\ k \in alive'
                  ELSE /\ last'.ret = tasks[k].pid
                       /\ last'.wrote = <<last'.arg[2], hist[k].exit_arg>>
                       /\ k \notin alive'
    ]_vars

\* A spawned child that exited with code 7 has been reaped by a sys_waitpid for
\* its pid, which stored 7.
C3_Witness ==
    /\ last.op = "sys_waitpid" /\ last.arg[1] = last.ret
    /\ last.wrote = <<last.arg[2], 7>>
    /\ hist[last.obj].origin = "spawn" /\ hist[last.obj].reaped = 1

\* C4: the assertion of sys_waitpid never fails: while the kernel runs, a
\* Zombie is held by exactly one child list and by nothing else (not the ready
\* queue, not PROCESSOR.current), so the reference sys_waitpid takes out of the
\* list is the last one.
C4_ZombieSingleHolder ==
    /\ fault # "assert_strong_count"
    /\ \A t \in alive :
          (fault = "none" /\ tasks[t].task_status = "Zombie") =>
             /\ \A i \in DOMAIN ready_queue : ready_queue[i] # t
             /\ current # t
             /\ ChildListPlaces(t) = 1

\* INITPROC has reaped a Zombie.
C4_Witness ==
    /\ last.op = "sys_waitpid" /\ last.ret >= 0 /\ last.task = INITPROC
    /\ last.obj \notin alive /\ fault = "none"

\* C5: at most one task has status Running, in either revision.
C5_OneRunning ==
    /\ Cardinality({t \in alive : tasks[t].task_status = "Running"}) <= 1
    /\ Cardinality({i \in TmIds : tm.tasks[i].task_status = "Running"}) <= 1

\* A task of the manager revision runs after another one was suspended.
C5_Witness ==
    /\ revision = "manager" /\ last.op = "tm_suspend"
    /\ tm.tasks[0].task_status = "Ready" /\ tm.tasks[1].task_status = "Running"

\* C6: no exclusive-access cell (PROCESSOR, TASK_MANAGER, a task's inner state)
\* is held when run_tasks, schedule, run_first_task or run_next_task calls
\* __switch.
C6_NoGuardAcrossSwitch == borrowed = {}

\* The idle loop has switched to a task that had been suspended before.
C6_Witness ==
    /\ last.op = "run_tasks" /\ current # NoTask
    /\ tasks[current].task_cx = "suspend" /\ borrowed = {}

\* The changes of status a step may make to a task.
StatusStep(old, new) ==
    \/ old = new
    \/ old = "Ready" /\ new = "Running"
    \/ old = "Running" /\ new = "Ready"
    \/ old = "Running" /\ new \in {"Zombie", "Exited"}

\* C7: a task's status changes only Ready -> Running, Running -> Ready and
\* Running -> Zombie/Exited, so a task that has exited is never Ready or Running
\* again; and no flow saved inside exit_current_and_run_next is resumed (the
\* panic after it in sys_exit is never reached).
C7_StatusMachine ==
    /\ [][/\ \A t \in alive \cap alive' :
                StatusStep(tasks[t].task_status, tasks'[t].task_status)
          /\ \A i \in TmIds :
                StatusStep(tm.tasks[i].task_status, tm'.tasks[i].task_status)]_vars
    /\ [](fault # "Unreachable in sys_exit!")
    /\ [](\A t \in alive : tasks[t].task_status = "Zombie" => current # t)
    /\ [](\A i \in TmIds :
            (tm.tasks[i].task_status = "Exited" /\ fault = "none")
               => tm.current_task # i)

\* A task of the manager revision has exited and a later one has been
\* suspended and run again.
C7_Witness ==
    /\ revision = "manager" /\ fault = "none"
    /\ tm.tasks[0].task_status = "Exited"
    /\ tm.tasks[1].task_status = "Running" /\ tm.tasks[1].task_cx = "suspend"

\* C8: right after sys_fork by task P the child C holds a pid no other
\* allocated task holds, P got that pid as its return value (not 0), x[10] of
\* C's trap context is 0 and C is in the ready queue once; and a forked task
\* that has not run yet still has 0 in x[10].
C8_Fork ==
    /\ last.op = "sys_fork" =>
          LET c == last.obj
              p == last.task
          IN /\ c \in alive /\ c # p
             /\ \A t \in alive \ {c} : tasks[t].pid # tasks[c].pid
             /\ last.ret = tasks[c].pid
             /\ tasks[p].x10 = tasks[c].pid /\ tasks[p].x10 # 0
             /\ tasks[c].x10 = 0
             /\ SeqCount(ready_queue, c) = 1
             /\ tasks[c].task_status = "Ready"
    /\ \A t \in alive :
          (hist[t].origin = "fork" /\ ~hist[t].ran) => tasks[t].x10 = 0

\* A task other than INITPROC has forked, with a non-zero value in a0.
C8_Witness ==
    /\ last.op = "sys_fork" /\ last.task # INITPROC
    /\ tasks[last.obj].parent = last.task

\* The bits of a port argument: R, W, X are bits 0..2, the others are above.
PortLowBits == {1, 2, 4}
PortHighBits == {8, 16, 32, 64, 128}

\* Is (start, port) a request sys_mmap turns down before looking at the areas?
BadMmapRequest(start, port) ==
    \/ start % PAGE_SIZE # 0
    \/ \E b \in PortHighBits : HasBit(port, b)
    \/ \A b \in PortLowBits : ~HasBit(port, b)

\* C9: sys_mmap(start, len, port) returns -1 and leaves the caller's areas as
\* they were when start is not page-aligned, or port has a bit above bit 2 set,
\* or bits 0..2 of port are all clear.
C9_MmapRejects ==
    [][(last'.op = "sys_mmap" /\ BadMmapRequest(last'.arg[1], last'.arg[3]))
          => /\ last'.ret = -1
             /\ CallerMemorySet' = CallerMemorySet
             /\ revision = "processor" => tasks'[current].x10 = -1]_vars

\* sys_mmap has turned down an aligned request for its port (bit 3 set along
\* with R and W) on pages no area covers.
C9_Witness ==
    /\ last.op = "sys_mmap" /\ last.arg = <<3 * PAGE_SIZE, 1, 11>> /\ last.ret = -1
    /\ ~is_overlapped(CallerMemorySet, 3, 4)

\* The page ranges of the areas of a memory set are pairwise disjoint.
Disjoint(ms) ==
    \A i, j \in DOMAIN ms :
        i # j => Pages(ms[i].start, ms[i].end) \cap Pages(ms[j].start, ms[j].end) = {}

\* Does the page-rounded range of a request share a page with an area of ms?
Intersects(ms, start, len) ==
    \E i \in DOMAIN ms :
        \E p \in ms[i].start .. (ms[i].end - 1) :
            start \div PAGE_SIZE <= p /\ p * PAGE_SIZE < start + len

\* C10: the areas of every task are pairwise disjoint after any sys_mmap and
\* sys_munmap calls; a sys_mmap whose page-rounded range shares a page with an
\* area returns -1 and changes nothing, and a sys_mmap that returns 0 was for
\* a range sharing no page with any area and added exactly that area.
C10_AreasDisjoint ==
    /\ [](\A t \in alive : Disjoint(tasks[t].memory_set))
    /\ [](\A i \in TmIds : Disjoint(tm.tasks[i].memory_set))
    /\ [][last'.op = "sys_mmap" =>
            LET start == last'.arg[1]
                len == last'.arg[2]
                hit == Intersects(CallerMemorySet, start, len)
            IN /\ last'.ret \in {0, -1}
               /\ (~BadMmapRequest(start, last'.arg[3]) /\ hit) => last'.ret = -1
               /\ last'.ret = -1 => CallerMemorySet' = CallerMemorySet
               /\ last'.ret = 0 =>
                     /\ ~hit
                     /\ Len(CallerMemorySet') = Len(CallerMemorySet) + 1
                     /\ SubSeq(CallerMemorySet', 1, Len(CallerMemorySet))
                           = CallerMemorySet
                     /\ LET a == CallerMemorySet'[Len(CallerMemorySet')]
                        IN /\ a.start = start \div PAGE_SIZE
                           /\ a.end * PAGE_SIZE >= start + len
                           /\ (a.end - 1) * PAGE_SIZE < start + len \/ a.end = a.start]_vars

\* A well-formed request for pages of which one was mapped by an earlier
\* sys_mmap has been turned down.
C10_Witness ==
    /\ last.op = "sys_mmap" /\ last.arg = <<2 * PAGE_SIZE, PAGE_SIZE + 1, 3>>
    /\ last.ret = -1
    /\ \E i \in DOMAIN CallerMemorySet :
          CallerMemorySet[i].start = 3 /\ CallerMemorySet[i].end = 4

\* The requests sys_mmap is tried with: a start, a length and a port.
MmapRequests == MmapStarts \X MmapLens \X MmapPorts

\* Does a request cover at least one page?
CoversPage(q) == q[1] \div PAGE_SIZE < (q[1] + q[2] + PAGE_SIZE - 1) \div PAGE_SIZE

\* The areas of a memory set, as a set.
AreaSet(ms) == {ms[i] : i \in DOMAIN ms}

\* sys_munmap(start, len) for each request of qs in turn: the memory set left
\* and 0, or the return value of the first call that does not return 0.
RECURSIVE MunmapAll(_, _)
MunmapAll(ms, qs) ==
    IF qs = << >> THEN [ret |-> 0, memory_set |-> ms]
    ELSE LET r == sys_munmap_result(ms, Head(qs)[1], Head(qs)[2])
         IN IF r.ret # 0 THEN r ELSE MunmapAll(r.memory_set, Tail(qs))

\* Did the calls of MunmapAll all return 0 and leave the memory set ms?
Restores(r, ms) == r.ret = 0 /\ r.memory_set = ms

\* sys_mmap of q on ms, then sys_munmap of the same start and len, gives back
\* the areas of ms, if the sys_mmap returned 0.
RoundTrip(ms, q) ==
    LET a == sys_mmap_result(ms, q[1], q[2], q[3]) IN
    a.ret = 0 =>
       LET b == MunmapAll(a.memory_set, << q >>)
       IN b.ret = 0 /\ AreaSet(b.memory_set) = AreaSet(ms)

\* The same for two requests mapped one after the other (both returning 0, so
\* their page ranges do not intersect) and unmapped in either order, and for
\* the same request mapped and unmapped twice.
PairTrip(ms, q1, q2) ==
    LET a == sys_mmap_result(ms, q1[1], q1[2], q1[3])
        b == sys_mmap_result(a.memory_set, q2[1], q2[2], q2[3])
    IN (a.ret = 0 /\ b.ret = 0) =>
          /\ Restores(MunmapAll(b.memory_set, << q1, q2 >>), ms)
          /\ Restores(MunmapAll(b.memory_set, << q2, q1 >>), ms)

RepeatTrip(ms, q) ==
    LET a == sys_mmap_result(ms, q[1], q[2], q[3])
        b == MunmapAll(a.memory_set, << q >>)
    IN a.ret = 0 =>
          /\ Restores(b, ms)
          /\ LET c == sys_mmap_result(b.memory_set, q[1], q[2], q[3])
             IN c.ret = 0 /\ Restores(MunmapAll(c.memory_set, << q >>), ms)

\* The memory sets the round trips are tried on: the running task's.
SomeoneRuns == (Running \/ TmRunning) /\ Len(CallerMemorySet) < MaxAreas

ExactMatches(ms, start, len) ==
    {i \in DOMAIN ms :
        /\ ms[i].start * PAGE_SIZE <= start /\ start < (ms[i].start + 1) * PAGE_SIZE
        /\ (ms[i].end - 1) * PAGE_SIZE < start + len
        /\ start + len <= ms[i].end * PAGE_SIZE}

\* C12: sys_munmap(start, len) returns -1 and leaves the areas unchanged when
\* start is not page-aligned or no area has exactly the page range
\* [floor(start), ceil(start + len)); when it returns 0 it has removed exactly
\* one area, one with that range.
C12_MunmapErrors ==
    [][last'.op = "sys_munmap" =>
         LET start == last'.arg[1]
             len == last'.arg[2]
             ms == CallerMemorySet
             hits == ExactMatches(ms, start, len)
         IN /\ last'.ret \in {0, -1}
            /\ (start % PAGE_SIZE # 0 \/ hits = {}) => last'.ret = -1
            /\ last'.ret = -1 => CallerMemorySet' = ms
            /\ last'.ret = 0 =>
                  \E i \in hits :
                     CallerMemorySet' =
                        SubSeq(ms, 1, i - 1) \o SubSeq(ms, i + 1, Len(ms))]_vars

\* sys_munmap has turned down a range that spans two areas, each mapped by a
\* sys_mmap of its own.
C12_Witness ==
    /\ last.op = "sys_munmap" /\ last.ret = -1
    /\ last.arg = << 2 * PAGE_SIZE, PAGE_SIZE + 1 >>
    /\ \E i, j \in DOMAIN CallerMemorySet :
          /\ CallerMemorySet[i].start = 2 /\ CallerMemorySet[i].end = 3
          /\ CallerMemorySet[j].start = 3 /\ CallerMemorySet[j].end = 4

\* C13: sys_sbrk(0) returns the break and leaves it; a sys_sbrk(size) that
\* would put the break below heap_bottom returns -1 and leaves it; a sys_sbrk
\* that does not return -1 returns the break there was and moves the break by
\* exactly size.  The heap's base never moves and the break is never below it.
C13_Sbrk ==
    /\ [][last'.op = "sys_sbrk" =>
            LET size == last'.arg[1]
                brk == CallerTcb.program_brk
                bottom == CallerTcb.heap_bottom
            IN /\ CallerTcb'.heap_bottom = bottom
               /\ size = 0 => (last'.ret = brk /\ CallerTcb'.program_brk = brk)
               /\ brk + size < bottom =>
                     (last'.ret = -1 /\ CallerTcb'.program_brk = brk)
               /\ brk + size >= bottom =>
                     (last'.ret = brk /\ CallerTcb'.program_brk = brk + size)
               /\ revision = "processor" => tasks'[current].x10 = last'.ret]_vars
    /\ [](\A t \in alive : tasks[t].program_brk >= tasks[t].heap_bottom)
    /\ [](\A i \in TmIds : tm.tasks[i].program_brk >= tm.tasks[i].heap_bottom)

\* A task whose heap was grown by a page has asked to shrink it by a page and
\* a half, and got -1.
C13_Witness ==
    /\ last.op = "sys_sbrk" /\ last.arg = << -(PAGE_SIZE + HalfPage) >>
    /\ last.ret = -1
    /\ CallerTcb.program_brk = CallerTcb.heap_bottom + PAGE_SIZE

\* C14: a syscall handed a user pointer that is not mapped writable (readable,
\* for a path) in the caller's address space does not halt the kernel.
C14_BadPointerNoFault == fault # "translate"

\* C15: whatever words start, len and port are, sys_mmap and sys_munmap return
\* 0 or -1 and the kernel does not halt, also when start + len leaves the word
\* range and when len is 0.
C15_WordRangeNoFault ==
    last.op \in {"sys_mmap", "sys_munmap"} =>
        (fault = "none" /\ last.ret \in {0, -1})

C17_RunningHasScheduledTime ==
    /\ fault # "unwrap on None"
    /\ \A t \in alive :
          tasks[t].task_status = "Running" => tasks[t].scheduled_time # NoTime
    /\ \A i \in TmIds :
          tm.tasks[i].task_status = "Running" => tm.tasks[i].scheduled_time # NoTime

\* C18: every allocated task but INITPROC has exactly one place in the child
\* lists of all tasks; sys_exit appends the children of the exiting task, each
\* once and in order, to INITPROC's child list and leaves the exiting task
\* without children; and a zombie in INITPROC's child list is what a
\* sys_waitpid of INITPROC for its pid, or for -1 when it is the first zombie,
\* finds.
C18_ChildrenReparented ==
    /\ [](fault = "none" =>
            \A t \in alive \ {INITPROC} :
                /\ ChildListPlaces(t) = 1
                /\ SeqCount(tasks[tasks[t].parent].children, t) = 1)
    /\ [][last'.op = "sys_exit" =>
            LET t == last'.task
                orphans == tasks[t].children
            IN /\ tasks'[INITPROC].children = tasks[INITPROC].children \o orphans
               /\ tasks'[t].children = << >>
               /\ \A i \in DOMAIN orphans :
                     /\ tasks'[orphans[i]].parent = INITPROC
                     /\ SeqCount(tasks'[INITPROC].children, orphans[i]) = 1
                     /\ orphans[i] \in alive']_vars
    /\ [](fault = "none" =>
            \A i \in DOMAIN tasks[INITPROC].children :
                LET c == tasks[INITPROC].children[i] IN
                is_zombie(c) =>
                    /\ tasks[INITPROC].children[
                           waitpid_find(tasks[INITPROC].children, getpid(c))] = c
                    /\ waitpid_find(tasks[INITPROC].children, -1) \in 1 .. i)

\* A task with a child has exited and the child is in INITPROC's list.
C18_Witness ==
    /\ last.op = "sys_exit" /\ last.obj # NoTask /\ fault = "none"
    /\ SeqCount(tasks[INITPROC].children, last.obj) = 1
    /\ tasks[last.obj].parent = INITPROC

\* C19: what current_syscall_counter gives for a task is, for every id, the
\* number of times count_current_syscall(id) ran while the task was current,
\* and that is what a sys_task_info that returns has written as syscall_times;
\* a run of count_current_syscall(id) adds one to the current task's count of
\* id and leaves its other counts and every other task's counter as they were.
C19_SyscallTimes ==
    /\ [](/\ \A t \in alive :
                Processor => current_syscall_counter(tasks[t]) = calls[t]
          /\ \A i \in TmIds :
                Manager => current_syscall_counter(tm.tasks[i]) = calls[i])
    /\ [][(last'.op = "sys_task_info" /\ last'.wrote # NoWrite) =>
            last'.wrote[2].syscall_times = calls[last'.task]]_vars
    /\ [][calls' # calls =>
            LET t == last'.task
                id == last'.arg[1]
                before == IF Processor THEN tasks[t] ELSE tm.tasks[t]
                after == IF Processor THEN tasks'[t] ELSE tm'.tasks[t]
            IN /\ last'.op = "count_current_syscall"
               /\ t = Caller
               /\ current_syscall_counter(after)[id]
                     = current_syscall_counter(before)[id] + 1
               /\ \A k \in SyscallIds \ {id} :
                     current_syscall_counter(after)[k]
                        = current_syscall_counter(before)[k]
               /\ \A u \in Ids \ {IF Processor THEN t ELSE NoTask} :
                     tasks'[u].syscall_counter = tasks[u].syscall_counter
               /\ \A i \in TmIds \ {IF Processor THEN -1 ELSE t} :
                     tm'.tasks[i].syscall_counter = tm.tasks[i].syscall_counter]_vars

\* sys_task_info has reported two runs for one id and none for the other,
\* while another task has counted the other id.
C19_Witness ==
    /\ last.op = "sys_task_info" /\ last.wrote # NoWrite
    /\ last.wrote[2].syscall_times[124] = 2
    /\ last.wrote[2].syscall_times[410] = 0
    /\ \E i \in TmIds \ {last.task} : calls[i][410] = 1

\* C20: sys_set_priority(prio) with prio >= 2 returns prio and leaves the
\* caller with priority prio; with prio < 2 it returns -1 and leaves the
\* caller's priority as it was; no other task's priority changes.
C20_SetPriority ==
    [][last'.op = "sys_set_priority" =>
        LET t == last'.task
            prio == last'.arg[1]
        IN /\ t = current
           /\ IF prio >= 2
              THEN /\ last'.ret = prio
                   /\ tasks'[t].x10 = prio
                   /\ tasks'[t].priority = prio
              ELSE /\ last'.ret = -1
                   /\ tasks'[t].x10 = -1
                   /\ tasks'[t].priority = tasks[t].priority
           /\ \A u \in Ids \ {t} : tasks'[u].priority = tasks[u].priority]_vars

\* A refused request has left a priority set earlier in place, while another
\* task has the default priority.
C20_Witness ==
    /\ last.op = "sys_set_priority" /\ last.arg[1] = 1 /\ last.ret = -1
    /\ tasks[last.task].priority = 3
    /\ \E u \in alive \ {last.task} : tasks[u].priority = DefaultPriority

\* Task t waits in the ready queue.
InReadyQueue(t) == SeqCount(ready_queue, t) > 0

TmStatuses == {"UnInit", "Ready", "Running", "Exited"}

\* The manager m with the statuses st and the current task cur.
TmWith(m, st, cur) ==
    [m EXCEPT !.tasks = [i \in TmIds |-> [m.tasks[i] EXCEPT !.task_status = st[i]]],
              !.current_task = cur]

\* How many places after cur task i comes in the cyclic order that starts at
\* cur + 1 and ends at cur.
CyclicPlace(cur, i) == IF i > cur THEN i - cur ELSE i - cur + NumApp

\* r is what the claim says find_next_task returns for m.
FirstReadyAfterCurrent(m, r) ==
    IF \A i \in TmIds : m.tasks[i].task_status # "Ready"
    THEN r = -1
    ELSE /\ r \in TmIds
         /\ m.tasks[r].task_status = "Ready"
         /\ \A i \in TmIds :
               m.tasks[i].task_status = "Ready" =>
                  CyclicPlace(m.current_task, r) <= CyclicPlace(m.current_task, i)

\* C22: for every assignment of statuses and every current task,
\* find_next_task returns the first Ready task in cyclic order from
\* current_task + 1 to current_task, and None exactly when no task is Ready; a
\* task that suspends while no other task is Ready runs again at once, and a
\* task that exits while no other task is Ready halts the kernel with "All
\* applications completed!".
C22_FindNextTask ==
    /\ [](\A st \in [TmIds -> TmStatuses] : \A cur \in TmIds :
            FirstReadyAfterCurrent(TmWith(tm, st, cur),
                                   find_next_task(TmWith(tm, st, cur))))
    /\ [][last'.op \in {"tm_suspend", "tm_exit"} =>
            LET cur == tm.current_task
                alone == \A i \in TmIds \ {cur} : tm.tasks[i].task_status # "Ready"
            IN IF ~alone
               THEN /\ fault' = "none"
                    /\ tm'.current_task # cur
                    /\ tm.tasks[tm'.current_task].task_status = "Ready"
                    /\ tm'.tasks[tm'.current_task].task_status = "Running"
                    /\ \A i \in TmIds \ {cur} :
                          tm.tasks[i].task_status = "Ready" =>
                             CyclicPlace(cur, tm'.current_task) <= CyclicPlace(cur, i)
               ELSE IF last'.op = "tm_suspend"
               THEN /\ fault' = "none"
                    /\ tm'.current_task = cur
                    /\ tm'.tasks[cur].task_status = "Running"
               ELSE fault' = "All applications completed!"]_vars

\* The only task left has suspended and runs again.
C22_Witness ==
    /\ last.op = "tm_suspend" /\ fault = "none"
    /\ tm.current_task = last.task
    /\ tm.tasks[last.task].task_status = "Running"
    /\ \A i \in TmIds \ {last.task} : tm.tasks[i].task_status = "Exited"

\* C23: PROCESSOR.current holds no task or one allocated task, which is
\* Running and not in the ready queue; no task is in the ready queue twice;
\* every task in the ready queue is allocated and Ready; and an iteration of
\* the idle loop starts with PROCESSOR.current empty.
C23_CurrentAndQueue ==
    /\ [](/\ current \in alive \cup {NoTask}
          /\ current # NoTask =>
                /\ tasks[current].task_status = "Running"
                /\ SeqCount(ready_queue, current) = 0
          /\ \A t \in Ids : SeqCount(ready_queue, t) <= 1
          /\ \A i \in DOMAIN ready_queue :
                /\ ready_queue[i] \in alive
                /\ tasks[ready_queue[i]].task_status = "Ready")
    /\ [][last'.op \in {"run_tasks", "run_tasks_none"} => current = NoTask]_vars

\* A task runs while two others wait, one of them after a yield.
C23_Witness ==
    /\ last.op = "run_tasks" /\ current # NoTask /\ fault = "none"
    /\ Len(ready_queue) = 2
    /\ \E i \in DOMAIN ready_queue : tasks[ready_queue[i]].task_cx = "suspend"

====
